---- MODULE Spec2Model ----
(***************************************************************************)
(* Model of snek (src/src/main.rs): the tick-driven state of the game.     *)
(* One step of the model is one call of State::tick by the host loop, with *)
(* the key the host put in ctx.key and the numbers the random generator    *)
(* produced during that call.  Rendering (ctx.cls, ctx.set, print_centered)*)
(* writes only to the terminal and is left out.                            *)
(***************************************************************************)
EXTENDS Integers, Sequences, FiniteSets, TLC

VARIABLES
  mode,      \* State.mode: "Playing" or "Dead"
  head,      \* State.player.head
  tail,      \* State.player.tail, front first
  dir,       \* State.player.dir
  ticks,     \* State.ticks
  food,      \* State.food.pos
  score,     \* State.score
  quitting,  \* ctx.quitting
  start,     \* history: the cell the current Player was constructed on
  food0,     \* history: the cell the current Food was constructed on
  steps,     \* history: calls of update_position on the current Player
  grows,     \* history: calls of grow on the current Player
  noops,     \* history: those calls of grow that found the direction Static
  respawns,  \* history: calls of respawn on the current Food
  visited    \* history kept by SpecTrail: the cells the head has left

vars ==
  <<mode, head, tail, dir, ticks, food, score, quitting,
    start, food0, steps, grows, noops, respawns, visited>>

(* ------------------------------ bounds -------------------------------- *)

\* A game in which any key may arrive at any tick is followed for MaxTicks
\* ticks while the food has been respawned fewer than MaxRespawns times, and
\* for GrowTicks ticks while it has been respawned fewer than GrowRespawns
\* times.
MaxTicks == 12

MaxRespawns == 1

GrowTicks == 6

GrowRespawns == 3

\* A long game is followed for RunTicks ticks, with keys during its first
\* RunKeyTicks ticks only, while the food has been respawned fewer than
\* RunRespawns times.
RunTicks == 222

RunKeyTicks == 2

RunRespawns == 2

\* The scenario of SpecRight is followed for RightTicks ticks.
RightTicks == 5

\* SpecTrail follows a game for TrailTicks ticks and TrailRespawns respawns.
TrailTicks == 6
TrailRespawns == 2

\* The cells the helpers of Cell are tried on have both coordinates within
\* BoxRadius of a coordinate of the two start cells.
BoxRadius == 2

(* ----------------------------- constants ------------------------------ *)

SCREEN_WIDTH == 48

SCREEN_HEIGHT == 48

\* Exclusive upper bound of both random coordinates of the food.
FoodRange == 12

\* Player::new(2, 2) in State::new
NewX == 2

NewY == 2

\* Player::new(20, 20) in State::restart
RestartX == 20

RestartY == 20

\* self.ticks % 5 == 0
MovePeriod == 5

Dirs == {"Static", "Left", "Right", "Up", "Down"}

Modes == {"Playing", "Dead"}

\* ctx.key: None, the six keys the code matches on, and any other key.
Keys == {"None", "D", "A", "W", "S", "P", "Q", "Other"}

(* -------------------------------- Cell -------------------------------- *)

CellNew(x, y) == [x |-> x, y |-> y]

\* right with the intuitive sign.
right_plus(curr) == CellNew(curr.x + 1, curr.y)

right(curr) == CellNew(curr.x - 1, curr.y)

\* left that also moves down a row.
left_diagonal(curr) == CellNew(curr.x + 1, curr.y + 1)

left(curr) == CellNew(curr.x + 1, curr.y)

up(curr) == CellNew(curr.x, curr.y - 1)

down(curr) == CellNew(curr.x, curr.y + 1)

(* ------------------------------ VecDeque ------------------------------ *)

\* VecDeque::rotate_left(n): the first n elements move to the back.
rotate_left(q, n) == SubSeq(q, n + 1, Len(q)) \o SubSeq(q, 1, n)

push_front(q, c) == <<c>> \o q

push_back(q, c) == Append(q, c)

\* VecDeque::pop_back: removes the last element (nothing when empty).
pop_back(q) == IF Len(q) = 0 THEN q ELSE SubSeq(q, 1, Len(q) - 1)

(* ------------------------------- Player ------------------------------- *)

\* The player part of the state: [head, tail, dir].
PlayerNew(x, y) == [head |-> CellNew(x, y), tail |-> <<>>, dir |-> "Static"]

update_direction(p, key) ==
  CASE key = "D" -> [p EXCEPT !.dir = "Left"]
    [] key = "A" -> [p EXCEPT !.dir = "Right"]
    [] key = "W" -> [p EXCEPT !.dir = "Up"]
    [] key = "S" -> [p EXCEPT !.dir = "Down"]
    [] OTHER -> p

\* The tail part of update_position without pop_back.
shift_tail_no_pop(p) ==
  IF Len(p.tail) > 1
    THEN [p EXCEPT !.tail = push_front(rotate_left(p.tail, 1), p.head)]
    ELSE p

\* A tail part that also shifts a tail of one segment.
shift_tail_from_one(p) ==
  IF Len(p.tail) >= 1
    THEN [p EXCEPT !.tail = pop_back(push_front(rotate_left(p.tail, 1), p.head))]
    ELSE p

\* Lines 95-99: the tail part of update_position.
shift_tail(p) ==
  IF Len(p.tail) > 1
    THEN [p EXCEPT !.tail = pop_back(push_front(rotate_left(p.tail, 1), p.head))]
    ELSE p

\* Lines 101-107 and 119-125: the cell one step from c in direction d
\* (Static has no step).
step(c, d) ==
  CASE d = "Left" -> left(c)
    [] d = "Right" -> right(c)
    [] d = "Up" -> up(c)
    [] d = "Down" -> down(c)
    [] OTHER -> c

move_head(p) == [p EXCEPT !.head = step(p.head, p.dir)]

update_position(p) == move_head(shift_tail(p))

\* is_out_of_bounds without the +1 on the low side of x.
is_out_of_bounds_low(p) ==
  \/ p.head.x <= 0
  \/ p.head.x + 1 >= SCREEN_WIDTH
  \/ p.head.y + 1 <= 0
  \/ p.head.y + 1 >= SCREEN_HEIGHT

\* is_out_of_bounds with a strict comparison on the high side of y.
is_out_of_bounds_high(p) ==
  \/ p.head.x + 1 <= 0
  \/ p.head.x + 1 >= SCREEN_WIDTH
  \/ p.head.y + 1 <= 0
  \/ p.head.y + 1 > SCREEN_HEIGHT

is_out_of_bounds(p) ==
  \/ p.head.x + 1 <= 0
  \/ p.head.x + 1 >= SCREEN_WIDTH
  \/ p.head.y + 1 <= 0
  \/ p.head.y + 1 >= SCREEN_HEIGHT

\* grow without the Static arm: the step of Static is the cell itself.
grow_always(p) ==
  LET last_cell == IF Len(p.tail) > 0 THEN p.tail[Len(p.tail)] ELSE p.head
  IN  [p EXCEPT !.tail = push_back(p.tail, step(last_cell, p.dir))]

grow(p) ==
  LET last_cell == IF Len(p.tail) > 0 THEN p.tail[Len(p.tail)] ELSE p.head
  IN  IF p.dir = "Static"
        THEN p
        ELSE [p EXCEPT !.tail = push_back(p.tail, step(last_cell, p.dir))]

(* -------------------------------- Food -------------------------------- *)

\* A range that includes its upper end.
range_inclusive(lo, hi) == lo .. hi

\* RandomNumberGenerator::range(lo, hi): any integer n with lo <= n < hi.
range(lo, hi) == lo .. (hi - 1)

\* The cells Food::new and Food::respawn can draw.
FoodCells == {CellNew(x, y) : x \in range(0, FoodRange), y \in range(0, FoodRange)}

(* -------------------------------- State ------------------------------- *)

\* The state as one record, so that the code's statements compose in order.
S ==
  [mode |-> mode, player |-> [head |-> head, tail |-> tail, dir |-> dir],
   ticks |-> ticks, food |-> food, score |-> score, quitting |-> quitting,
   start |-> start, food0 |-> food0, steps |-> steps, grows |-> grows, noops |-> noops,
   respawns |-> respawns]

\* State::new, with f the cell Food::new drew.
StateNew(f) ==
  [mode |-> "Playing", player |-> PlayerNew(NewX, NewY), ticks |-> 0,
   food |-> f, score |-> 0, quitting |-> FALSE,
   start |-> CellNew(NewX, NewY), food0 |-> f, steps |-> 0, grows |-> 0, noops |-> 0,
   respawns |-> 0]

\* restart that forgets to replace the player.
restart_keeps_player(s, f) ==
  [s EXCEPT !.ticks = 0, !.food = f, !.score = 0, !.food0 = f, !.respawns = 0]

\* State::restart, with f the cell Food::new drew.
restart(s, f) ==
  [s EXCEPT !.player = PlayerNew(RestartX, RestartY),
            !.ticks = 0,
            !.food = f,
            !.score = 0,
            !.start = CellNew(RestartX, RestartY),
            !.food0 = f,
            !.steps = 0,
            !.grows = 0,
            !.noops = 0,
            !.respawns = 0]

\* A gate that opens on every tick.
is_move_tick_always(s) == s.ticks % 1 = 0

\* self.ticks % 5 == 0
is_move_tick(s) == s.ticks % MovePeriod = 0

\* play with the movement step before the key is applied.
play_move_late(s, key) ==
  LET s1 == IF is_move_tick(s)
              THEN [s EXCEPT !.player = update_position(s.player),
                             !.steps = @ + 1]
              ELSE s
      s2 == [s1 EXCEPT !.player = update_direction(s1.player, key)]
  IN  IF is_out_of_bounds(s2.player) THEN [s2 EXCEPT !.mode = "Dead"] ELSE s2

\* Lines 192-200 of State::play: direction, gated movement, bounds check.
play_move(s, key) ==
  LET s1 == [s EXCEPT !.player = update_direction(s.player, key)]
      s2 == IF is_move_tick(s1)
              THEN [s1 EXCEPT !.player = update_position(s1.player),
                              !.steps = @ + 1]
              ELSE s1
  IN  IF is_out_of_bounds(s2.player) THEN [s2 EXCEPT !.mode = "Dead"] ELSE s2

\* A comparison of the x coordinates only.
on_food_column(s) == s.player.head.x = s.food.x

\* Line 201: the head is on the food.
on_food(s) == s.player.head = s.food

\* Lines 201-204 of State::play: grow and respawn, f the cell respawn draws.
play_eat(s, f) ==
  IF on_food(s)
    THEN [s EXCEPT !.player = grow(s.player),
                   !.grows = @ + 1,
                   !.noops = IF s.player.dir = "Static" THEN @ + 1 ELSE @,
                   !.food = f,
                   !.respawns = @ + 1]
    ELSE s

play(s, key, f) == play_eat(play_move(s, key), f)

\* dead in which Q also leaves the Dead screen.
dead_quit_leaves(s, key, f) ==
  CASE key = "P" -> restart([s EXCEPT !.mode = "Playing"], f)
    [] key = "Q" -> [s EXCEPT !.quitting = TRUE, !.mode = "Playing"]
    [] OTHER -> s

\* dead in which the direction keys still steer.
dead_steers(s, key, f) ==
  CASE key = "P" -> restart([s EXCEPT !.mode = "Playing"], f)
    [] key = "Q" -> [s EXCEPT !.quitting = TRUE]
    [] OTHER -> [s EXCEPT !.player = update_direction(s.player, key)]

\* State::dead, f the cell Food::new draws on a restart.
dead(s, key, f) ==
  CASE key = "P" -> restart([s EXCEPT !.mode = "Playing"], f)
    [] key = "Q" -> [s EXCEPT !.quitting = TRUE]
    [] OTHER -> s

\* GameState::tick
tick(s, key, f) ==
  LET s1 == IF s.mode = "Playing" THEN play(s, key, f) ELSE dead(s, key, f)
  IN  [s1 EXCEPT !.ticks = @ + 1]

(* ------------------------------- actions ------------------------------ *)

Set(s) ==
  /\ mode' = s.mode
  /\ head' = s.player.head
  /\ tail' = s.player.tail
  /\ dir' = s.player.dir
  /\ ticks' = s.ticks
  /\ food' = s.food
  /\ score' = s.score
  /\ quitting' = s.quitting
  /\ start' = s.start
  /\ food0' = s.food0
  /\ steps' = s.steps
  /\ noops' = s.noops
  /\ grows' = s.grows
  /\ respawns' = s.respawns

\* The variables hold the state s.
Is(s) ==
  /\ mode = s.mode
  /\ head = s.player.head
  /\ tail = s.player.tail
  /\ dir = s.player.dir
  /\ ticks = s.ticks
  /\ food = s.food
  /\ score = s.score
  /\ quitting = s.quitting
  /\ start = s.start
  /\ food0 = s.food0
  /\ steps = s.steps
  /\ noops = s.noops
  /\ grows = s.grows
  /\ respawns = s.respawns

\* The cells the generator may be asked for during a tick with this key:
\* FoodCells when the tick draws, the old food (unused) when it does not.
Draws(s, key) ==
  IF s.mode = "Playing"
    THEN IF on_food(play_move(s, key)) THEN FoodCells ELSE {s.food}
    ELSE IF key = "P" THEN FoodCells ELSE {s.food}

\* main_loop calls tick until ctx.quitting is set; the model follows a game
\* for maxTicks ticks and maxRespawns respawns.
Running(maxTicks, maxRespawns) ==
  ~quitting /\ ticks < maxTicks /\ respawns < maxRespawns

\* One call of tick with this key.
TickWith(key) ==
  /\ \E f \in Draws(S, key) : Set(tick(S, key, f))
  /\ UNCHANGED visited

\* A tick of a game in which any key may arrive at any tick.
PlayTick ==
  /\ mode = "Playing"
  /\ Running(MaxTicks, MaxRespawns) \/ Running(GrowTicks, GrowRespawns)
  /\ \E key \in Keys : TickWith(key)

DeadTick ==
  /\ mode = "Dead"
  /\ Running(MaxTicks, MaxRespawns) \/ Running(GrowTicks, GrowRespawns)
  /\ \E key \in Keys : TickWith(key)

Init ==
  /\ \E f \in FoodCells : Is(StateNew(f))
  /\ visited = {}

Next == PlayTick \/ DeadTick

Spec == Init /\ [][Next]_vars

\* The cells a respawn of a long game is tried with: of the cells the
\* generator may answer, those in line with the head, which a snake running
\* straight on can reach, and the far corner of the food region.
RunDraws(s, key) ==
  LET h == play_move(s, key).player.head
  IN  {f \in Draws(s, key) :
         \/ f = s.food
         \/ f.x = h.x
         \/ f.y = h.y
         \/ f = CellNew(FoodRange - 1, FoodRange - 1)}

\* A tick of a long game: keys arrive only during its first RunKeyTicks
\* ticks, after which the snake runs on until it leaves the board.
RunPlayTick ==
  /\ mode = "Playing"
  /\ Running(RunTicks, RunRespawns)
  /\ \E key \in (IF ticks < RunKeyTicks THEN Keys ELSE {"None"}) :
       \E f \in RunDraws(S, key) : Set(tick(S, key, f))
  /\ UNCHANGED visited

\* On the Dead screen of a long game the user restarts or quits at once.
RunDeadTick ==
  /\ mode = "Dead"
  /\ Running(RunTicks, RunRespawns)
  /\ \E key \in {"P", "Q"} : TickWith(key)

NextRun == RunPlayTick \/ RunDeadTick

SpecRun == Init /\ [][NextRun]_vars

\* The scenario "set direction Right, advance exactly 5 ticks with no other
\* input": key A (Right) on the first tick, no key on the next four.
RightTick ==
  /\ mode = "Playing"
  /\ ~quitting
  /\ ticks < RightTicks
  /\ TickWith(IF ticks = 0 THEN "A" ELSE "None")

SpecRight == Init /\ [][RightTick]_vars

(* ------------------ a game with the trail of the head ------------------ *)

\* A Playing tick with any key that also records the cell the head leaves.
TrailTick ==
  /\ mode = "Playing"
  /\ Running(TrailTicks, TrailRespawns)
  /\ \E key \in Keys : \E f \in Draws(S, key) : Set(tick(S, key, f))
  /\ visited' = IF head' # head THEN visited \cup {head} ELSE visited

SpecTrail == Init /\ [][TrailTick]_vars

(* --------------------- the helpers of Cell on their own ---------------- *)

\* The key update_direction maps to direction d (no key for Static).
KeyFor(d) ==
  IF d = "Static"
    THEN "None"
    ELSE CHOOSE key \in Keys :
           update_direction(PlayerNew(0, 0), key).dir = d

\* The direction opposite to d.
Opposite(d) ==
  CASE d = "Left" -> "Right"
    [] d = "Right" -> "Left"
    [] d = "Up" -> "Down"
    [] d = "Down" -> "Up"
    [] OTHER -> "Static"

BoxCoordinates ==
  (NewX - BoxRadius .. NewX + BoxRadius)
    \cup (RestartX - BoxRadius .. RestartX + BoxRadius)

Box == {CellNew(x, y) : x \in BoxCoordinates, y \in BoxCoordinates}

SetPlayer(p) ==
  /\ head' = p.head
  /\ tail' = p.tail
  /\ dir' = p.dir
  /\ steps' = steps + 1
  /\ UNCHANGED <<mode, ticks, food, score, quitting, start, food0, grows, noops,
                 respawns, visited>>

\* A player with an empty tail on any cell of Box.
InitCell ==
  /\ \E c \in Box :
       Is([StateNew(CellNew(0, 0)) EXCEPT !.player.head = c, !.start = c])
  /\ visited = {}

\* update_direction with any key, then one update_position.
CellThere ==
  /\ steps = 0
  /\ \E key \in Keys : SetPlayer(update_position(update_direction(S.player, key)))

\* update_direction with the key of the opposite direction, then one
\* update_position.
CellBack ==
  /\ steps = 1
  /\ SetPlayer(update_position(update_direction(S.player, KeyFor(Opposite(dir)))))

NextCell == CellThere \/ CellBack

SpecCell == InitCell /\ [][NextCell]_vars

(* ------------------------------- claims -------------------------------- *)

\* C1: at every tick boundary the mode is Dead exactly when the head is out
\* of bounds (x <= -1, x >= 47, y <= -1 or y >= 47), so every Playing state
\* has its head in 0..46 x 0..46 and only leaving the bounds causes Dead.
C1_DeadIffOutOfBounds ==
  (mode = "Dead") <=>
    (head.x <= -1 \/ head.x >= 47 \/ head.y <= -1 \/ head.y >= 47)

\* C1 witness: the snake has died on the far wall x = 47 while its tail,
\* grown on the way, lies on the board.
C1_Witness == mode = "Dead" /\ head.x = 47 /\ Len(tail) = 1

\* C2: a tick in mode Dead with key P ends Playing with score 0, a fresh
\* player on (20,20) (empty tail, Static) and food inside [0,12)x[0,12);
\* the first start has the head on (2,2).  The step is the tick with key P
\* in which Food::new draws the cell the food is on afterwards.
C2_Restart ==
  /\ head = [x |-> 2, y |-> 2]
  /\ [][(mode = "Dead" /\ Set(tick(S, "P", food'))) =>
          /\ mode' = "Playing"
          /\ score' = 0
          /\ head' = [x |-> 20, y |-> 20]
          /\ tail' = <<>>
          /\ dir' = "Static"
          /\ food'.x \in 0 .. 11
          /\ food'.y \in 0 .. 11]_vars

\* C2 witness: a restart has just happened after a game in which the snake
\* had left (2,2) and died.
C2_Witness ==
  mode = "Playing" /\ ticks = 1 /\ start = [x |-> 20, y |-> 20] /\ head = start

\* C3: the tick that processes the restart key leaves the tick counter 0.
C3_RestartTicksZero == [][(mode = "Dead" /\ TickWith("P")) => ticks' = 0]_vars

\* C4: in mode Playing the head changes during a tick only if the tick
\* counter at the start of the tick is a multiple of 5, so it is unchanged on
\* the 4 ticks after a movement tick.
C4_MovementGating ==
  [][(mode = "Playing" /\ ticks % 5 # 0) => head' = head]_vars

\* C4 witness: one movement step at tick 0 moved the head and four more
\* ticks have passed.
C4_Witness == mode = "Playing" /\ ticks = 5 /\ steps = 1 /\ head # start

\* C5 as stated: after N food-eating events (calls of grow) the tail length
\* is N.
C5_TailEqualsEvents == Len(tail) = grows

\* C5 amended: the tail length is the number of food-eating events that
\* happened while the direction was not Static.
C5_TailEqualsMovingEvents == Len(tail) = grows - noops

\* C5 witness: two food-eating events while moving, then a movement step
\* with the two-segment tail.
C5_Witness == grows = 2 /\ noops = 0 /\ Len(tail) = 2 /\ ticks = 6

\* C6: the length of the tail equals the score.
C6_TailEqualsScore == Len(tail) = score

\* C7 as stated: after key A on the first tick and four ticks without a key
\* the head is on (1,2), the tail is empty, the mode is Playing and the food
\* is where it was unless the head coincided with it.
C7_RightFiveTicks ==
  ticks = 5 =>
    /\ head = [x |-> 1, y |-> 2]
    /\ tail = <<>>
    /\ mode = "Playing"
    /\ (respawns = 0 => food = food0)

\* C7 amended: the head is on (1,2) and the mode is Playing; the tail is
\* empty and the food is where it was unless the head coincided with the
\* food, and then the tail has one segment for each tick in which it did.
C7_RightFiveTicksAmended ==
  ticks = 5 =>
    /\ head = [x |-> 1, y |-> 2]
    /\ mode = "Playing"
    /\ Len(tail) = grows
    /\ (grows = 0 => tail = <<>> /\ food = food0)

\* C7 witness: the five ticks are over and the head met the food on the
\* way (the food had been drawn on (1,2)).
C7_Witness ==
  ticks = 5 /\ food0 = [x |-> 1, y |-> 2] /\ tail = <<[x |-> 0, y |-> 2]>>

\* C8: in every reachable state the food position has 0 <= x < 12 and
\* 0 <= y < 12.
C8_FoodInRegion == food.x >= 0 /\ food.x < 12 /\ food.y >= 0 /\ food.y < 12

\* C8 witness: a respawn has put the food on the last cell of the region.
C8_Witness == respawns = 1 /\ food = [x |-> 11, y |-> 11]

\* C9: in a Playing tick in which the head is on the food after the movement
\* step, grow and respawn are each called exactly once (the tail gains one
\* segment, none while Static, and the food is drawn again); in a Playing tick
\* in which it is not, the food and the tail length are unchanged.
C9_FoodCollision ==
  [][mode = "Playing" =>
       IF head' = food
         THEN /\ grows' = grows + 1
              /\ respawns' = respawns + 1
              /\ Len(tail') = Len(tail) + (IF dir' = "Static" THEN 0 ELSE 1)
              /\ food'.x \in 0 .. 11
              /\ food'.y \in 0 .. 11
         ELSE /\ food' = food
              /\ Len(tail') = Len(tail)
              /\ grows' = grows
              /\ respawns' = respawns]_vars

\* C9 witness: the head met the food on a tick that was not a movement tick
\* (the food had respawned under the head).
C9_Witness == mode = "Playing" /\ grows = 2 /\ steps = 1 /\ Len(tail) = 2

\* C10: left -> (x+1,y), right -> (x-1,y), up -> (x,y-1), down -> (x,y+1);
\* a step in d followed by a step in opposite(d) returns to the cell; a head
\* with an empty tail that takes one movement step in d and one in opposite(d)
\* is back on its original cell.
C10_Helpers ==
  /\ left(head) = [x |-> head.x + 1, y |-> head.y]
  /\ right(head) = [x |-> head.x - 1, y |-> head.y]
  /\ up(head) = [x |-> head.x, y |-> head.y - 1]
  /\ down(head) = [x |-> head.x, y |-> head.y + 1]
  /\ \A d \in Dirs : step(step(head, d), Opposite(d)) = head
  /\ steps = 1 =>
       /\ dir = "Left" => head = [x |-> start.x + 1, y |-> start.y]
       /\ dir = "Right" => head = [x |-> start.x - 1, y |-> start.y]
       /\ dir = "Up" => head = [x |-> start.x, y |-> start.y - 1]
       /\ dir = "Down" => head = [x |-> start.x, y |-> start.y + 1]
       /\ dir = "Static" => head = start
  /\ steps = 2 => head = start /\ tail = <<>>

\* C10 witness: a head went one step Right and came back with one step Left.
C10_Witness == steps = 2 /\ dir = "Left" /\ head = start

\* C11: quitting is raised only by a tick in mode Dead with key Q; in mode
\* Playing the tick with key Q is the tick with no key and raises nothing;
\* in mode Dead the tick with key Q raises quitting and leaves mode, player,
\* food and score as they were (the tick counter alone advances).
C11_QuitOnlyWhenDead ==
  /\ [](mode = "Playing" =>
          /\ tick(S, "Q", food) = tick(S, "None", food)
          /\ tick(S, "Q", food).quitting = quitting)
  /\ [](mode = "Dead" =>
          tick(S, "Q", food) = [S EXCEPT !.quitting = TRUE, !.ticks = @ + 1])
  /\ [][(quitting' # quitting) =>
          mode = "Dead" /\ quitting' /\ Set(tick(S, "Q", food'))]_vars

\* C11 witness: the quit request has been raised on the Dead screen.
C11_Witness == quitting /\ mode = "Dead"

\* C12: a movement step with more than one tail segment puts the old head
\* at the front of the tail and drops the back element: the tail after
\* update_position is the old head followed by the old tail without its last
\* element (a segment grown in the same tick comes after these).
C12_FollowTheLeader ==
  [][(mode = "Playing" /\ ticks % 5 = 0 /\ Len(tail) > 1) =>
       SubSeq(tail', 1, Len(tail)) =
         <<head>> \o SubSeq(tail, 1, Len(tail) - 1)]_vars

\* Two cells that share an edge.
Adjacent(a, b) ==
  \/ a.x = b.x /\ (a.y = b.y + 1 \/ b.y = a.y + 1)
  \/ a.y = b.y /\ (a.x = b.x + 1 \/ b.x = a.x + 1)

\* C13: the tail follows the head: the first segment is orthogonally adjacent
\* to the head, every further segment is adjacent to the one before it, and
\* every segment is a cell the head has previously occupied.
C13_TailFollowsHead ==
  /\ Len(tail) > 0 => Adjacent(tail[1], head)
  /\ \A i \in 2..Len(tail) : Adjacent(tail[i], tail[i - 1])
  /\ \A i \in 1..Len(tail) : tail[i] \in visited

\* C14: update_direction does not reverse: a Playing tick whose key is the
\* key of the direction opposite to the current one leaves the direction as
\* it was.
C14_NoReversal ==
  [][(/\ mode = "Playing"
      /\ dir # "Static"
      /\ Set(tick(S, KeyFor(Opposite(dir)), food'))) => dir' = dir]_vars

\* C15: a tick in mode Dead with no key or with any key other than P leaves
\* mode, head, tail, direction, food and score as they were and adds exactly
\* one to ticks.
C15_DeadIdle ==
  [][(mode = "Dead" /\ \E key \in Keys \ {"P"} : Set(tick(S, key, food'))) =>
       /\ mode' = "Dead"
       /\ head' = head
       /\ tail' = tail
       /\ dir' = dir
       /\ food' = food
       /\ score' = score
       /\ ticks' = ticks + 1]_vars

\* C15 witness: the earliest game over (tick 10) followed by a Dead tick
\* that is neither a restart nor a quit.
C15_Witness == mode = "Dead" /\ ticks = 12 /\ ~quitting

\* C16: a Playing tick that starts with at most one tail segment leaves
\* these segments where they are; the tail after the tick is the old tail,
\* followed by the segment grown in this tick if there is one.
C16_ShortTailStays ==
  [][(mode = "Playing" /\ Len(tail) <= 1) =>
       /\ SubSeq(tail', 1, Len(tail)) = tail
       /\ Len(tail') <= Len(tail) + 1]_vars

\* C16 witness: the movement step of tick 5 has moved the head onto the
\* single segment that grow had put ahead of it, and the segment is still
\* there.
C16_Witness == ticks = 6 /\ steps = 2 /\ Len(tail) = 1 /\ head = tail[1]

\* C17: while the direction is Static the head is on the start cell, the
\* tail is empty and the mode is Playing, whatever ticks and food
\* collisions there have been.
C17_StaticKeepsPlayer ==
  dir = "Static" => head = start /\ tail = <<>> /\ mode = "Playing"

\* C17 witness: the food has been drawn twice under the resting head, its
\* third cell is elsewhere, and a movement tick has passed.
C17_Witness ==
  dir = "Static" /\ noops = 2 /\ respawns = 2 /\ steps = 1 /\ food # head

\* C18: in a Playing tick the key is applied before the movement step: the
\* tick with a direction key ends with that direction and, on a movement
\* tick, with the head one step in that direction from where it was; the
\* tick with any other key keeps the direction and moves the head in it;
\* and in every step the head has moved in the direction the tick ended
\* with.
C18_KeyBeforeMove ==
  /\ [](mode = "Playing" =>
          /\ \A d \in Dirs \ {"Static"} :
               LET p == play_move(S, KeyFor(d)).player
               IN  /\ p.dir = d
                   /\ p.head = IF ticks % MovePeriod = 0
                                 THEN step(head, d) ELSE head
          /\ \A key \in {"None", "P", "Q", "Other"} :
               LET p == play_move(S, key).player
               IN  /\ p.dir = dir
                   /\ p.head = IF ticks % MovePeriod = 0
                                 THEN step(head, dir) ELSE head)
  /\ [][mode = "Playing" =>
          head' = IF ticks % MovePeriod = 0 THEN step(head, dir') ELSE head]_vars

\* C18 witness: key D on the movement tick 0 has turned the resting player
\* Left and moved the head in the same tick.
C18_Witness ==
  ticks = 1 /\ start = [x |-> 2, y |-> 2] /\ dir = "Left"
    /\ head = [x |-> 3, y |-> 2]

\* C20: every tail segment lies on the board.
C20_TailOnBoard ==
  \A i \in 1..Len(tail) :
    /\ 0 <= tail[i].x /\ tail[i].x < SCREEN_WIDTH
    /\ 0 <= tail[i].y /\ tail[i].y < SCREEN_HEIGHT

\* The movement steps that take a head on cell c in direction d to a cell
\* that is_out_of_bounds rejects.
StepsToWall(c, d) ==
  CASE d = "Left" -> SCREEN_WIDTH - 1 - c.x
    [] d = "Right" -> c.x + 1
    [] d = "Up" -> c.y + 1
    [] d = "Down" -> SCREEN_HEIGHT - 1 - c.y
    [] OTHER -> 0

\* C19: a moving player that gets no key is Dead within 47 movement steps,
\* that is within 5 * 47 ticks, whatever its tail and whatever food it eats:
\* in a Playing state with a direction other than Static the head is
\* between 1 and 47 steps from the wall ahead; a tick after the last key
\* (in SpecRun, from tick RunKeyTicks on) keeps the direction, adds one to
\* ticks, takes one of these steps exactly when ticks is a multiple of 5,
\* and ends Dead exactly when no step is left.
C19_DeadWithin47Steps ==
  [][(mode = "Playing" /\ dir # "Static" /\ ticks >= RunKeyTicks) =>
       /\ StepsToWall(head, dir) \in 1..47
       /\ dir' = dir
       /\ ticks' = ticks + 1
       /\ StepsToWall(head', dir') =
            StepsToWall(head, dir) - (IF ticks % 5 = 0 THEN 1 ELSE 0)
       /\ mode' = "Dead" <=> StepsToWall(head', dir') = 0]_vars

\* C19 witness: a player that turned Down in the first ticks, ate once on
\* its way and got no further key is Dead on the far wall.
C19_Witness ==
  mode = "Dead" /\ dir = "Down" /\ head.y = 47 /\ Len(tail) = 1
====
